---------------------------- MODULE Spec2Model ----------------------------
(***************************************************************************)
(* Model of recall_repo.py: the common WHERE builder (_build_where) and    *)
(* the seven read-only query operations issued over the three-way join     *)
(* tbl_recall JOIN tbl_model JOIN tbl_manufacturer.                        *)
(*                                                                         *)
(* Text values are sequences of symbols.  The UI vocabulary of the source  *)
(* is written in ASCII here: ALL is the "no filter" option of the scope    *)
(* and maker selectors, DOMESTIC and OVERSEAS are the two region_at        *)
(* values.  A nullable column holds NULL (the empty tuple) or Some(v).     *)
(* A date is a triple <<year, month, day>>.                                *)
(***************************************************************************)
EXTENDS Integers, Sequences, FiniteSets, TLC

VARIABLES
    environ,           \* names of the connection parameters present in os.environ
    DB_CONFIG,         \* the module-level dict built at import, Unloaded before
    tbl_manufacturer,  \* maker_id -> [maker_name, region_at]
    tbl_model,         \* model_id -> [maker_id, model_name, start_date, end_date]
    tbl_recall,        \* recall_id -> [model_id, recall_quantity]
    now_year,          \* datetime.now().year
    imported,          \* recall_repo has been imported (its module body has run)
    storage,           \* the MySQL server: "up", "unreachable" or "failing"
    call,              \* the operation in progress (fetch_year_trend's loop) or Idle
    ret                \* what the last finished call gave its caller

vars == <<environ, DB_CONFIG, tbl_manufacturer, tbl_model, tbl_recall,
          now_year, imported, storage, call, ret>>

store == <<tbl_manufacturer, tbl_model, tbl_recall, now_year>>

----------------------------------------------------------------------------
(* Bounds of the model.                                                     *)

\* first calendar year of the production periods in the store
FirstYear == 2021
\* number of consecutive calendar years the production periods may touch
NumYears == 3
\* largest number of rows of tbl_recall
MaxRecalls == 3
\* largest LIMIT / top_n a caller passes besides the defaults
MaxLimit == 2
\* longest raw search text fed to the WHERE builder
MaxSearchLen == 2
\* largest distance |max_year - min_year| of a fetch_year_trend call
MaxSpan == 3

(* Program constants.                                                       *)

\* fetch_recalls(limit=500)
DEFAULT_LIMIT == 500
\* fetch_maker_ranking / fetch_model_ranking (top_n=20)
DEFAULT_TOP_N == 20
\* the fallback lower bound of fetch_year_range
FALLBACK_MIN_YEAR == 2000

----------------------------------------------------------------------------
(* Values.                                                                  *)

NULL == <<>>
Some(v) == <<v>>
Val(x) == x[1]
COALESCE(x, d) == IF x = NULL THEN d ELSE Val(x)

ALL == <<"ALL">>
DOMESTIC == <<"DOMESTIC">>
OVERSEAS == <<"OVERSEAS">>

Min(a, b) == IF a <= b THEN a ELSE b
Max(a, b) == IF a >= b THEN a ELSE b

\* datetime.date(y, m, d)
date(y, m, d) == <<y, m, d>>

\* d1 <= d2 on dates, as MySQL compares DATE values
DateLE(d1, d2) ==
    \/ d1[1] < d2[1]
    \/ d1[1] = d2[1] /\ d1[2] < d2[2]
    \/ d1[1] = d2[1] /\ d1[2] = d2[2] /\ d1[3] <= d2[3]

\* YEAR(d)
YEAR(d) == d[1]

\* A bound parameter of a parameterized query: a text or a date.
NoDate == <<0, 0, 0>>
TextParam(t) == [kind |-> "text", text |-> t, date |-> NoDate]
DateParam(d) == [kind |-> "date", text |-> <<>>, date |-> d]

----------------------------------------------------------------------------
(* str.strip(): drop the leading and the trailing white space.              *)

IsSpace(c) == c = " "

RECURSIVE LStrip(_)
LStrip(s) ==
    IF s # <<>> /\ IsSpace(Head(s)) THEN LStrip(Tail(s)) ELSE s

RECURSIVE RStrip(_)
RStrip(s) ==
    IF s # <<>> /\ IsSpace(s[Len(s)]) THEN RStrip(SubSeq(s, 1, Len(s) - 1)) ELSE s

strip(s) == RStrip(LStrip(s))

----------------------------------------------------------------------------
(* _build_where: the clause list and the bound parameters.                  *)

SCOPE_CLAUSE == "mf.region_at = %s"
MAKER_CLAUSE == "mf.maker_name = %s"
YEAR_CLAUSE == "md.start_date <= %s AND md.end_date >= %s"
SEARCH_CLAUSE ==
    "(mf.maker_name LIKE CONCAT('%', %s, '%') OR md.model_name LIKE CONCAT('%', %s, '%'))"

\* if scope != ALL: where.append(...); params.append(scope)
ScopePart(scope) ==
    IF scope # ALL
    THEN [where |-> <<SCOPE_CLAUSE>>, params |-> <<TextParam(scope)>>]
    ELSE [where |-> <<>>, params |-> <<>>]

\* if maker != ALL: where.append(...); params.append(maker)
MakerPart(maker) ==
    IF maker # ALL
    THEN [where |-> <<MAKER_CLAUSE>>, params |-> <<TextParam(maker)>>]
    ELSE [where |-> <<>>, params |-> <<>>]

\* a plausible slip: the two dates bound in the order of their names
YearPartSwapped(manufacture_year) ==
    IF manufacture_year # NULL
    THEN LET y_start == date(Val(manufacture_year), 1, 1)
             y_end == date(Val(manufacture_year), 12, 31)
         IN  [where |-> <<YEAR_CLAUSE>>,
              params |-> <<DateParam(y_start), DateParam(y_end)>>]
    ELSE [where |-> <<>>, params |-> <<>>]

\* if manufacture_year is not None: ...; params.extend([y_end, y_start])
YearPart(manufacture_year) ==
    IF manufacture_year # NULL
    THEN LET y_start == date(Val(manufacture_year), 1, 1)
             y_end == date(Val(manufacture_year), 12, 31)
         IN  [where |-> <<YEAR_CLAUSE>>,
              params |-> <<DateParam(y_end), DateParam(y_start)>>]
    ELSE [where |-> <<>>, params |-> <<>>]

\* s = (search_text or "").strip(); if s: ...; params.extend([s, s])
SearchPart(search_text) ==
    LET s == strip(search_text)
    IN  IF s # <<>>
        THEN [where |-> <<SEARCH_CLAUSE>>, params |-> <<TextParam(s), TextParam(s)>>]
        ELSE [where |-> <<>>, params |-> <<>>]

\* a plausible slip: the maker test placed before the scope test
BuildWhereMakerFirst(scope, maker, manufacture_year, search_text) ==
    LET m == MakerPart(maker)
        sc == ScopePart(scope)
        y == YearPart(manufacture_year)
        se == SearchPart(search_text)
    IN  [where |-> m.where \o sc.where \o y.where \o se.where,
         params |-> m.params \o sc.params \o y.params \o se.params]

\* _build_where(scope, maker, manufacture_year, search_text) -> (where, params)
\* (where = <<>> stands for where_sql = "")
BuildWhere(scope, maker, manufacture_year, search_text) ==
    LET sc == ScopePart(scope)
        m == MakerPart(maker)
        y == YearPart(manufacture_year)
        se == SearchPart(search_text)
    IN  [where |-> sc.where \o m.where \o y.where \o se.where,
         params |-> sc.params \o m.params \o y.params \o se.params]

----------------------------------------------------------------------------
(* The three-way join and the evaluation of a built WHERE on a joined row.  *)

\* FROM tbl_recall rc JOIN tbl_model md ON rc.model_id = md.model_id
\*                    JOIN tbl_manufacturer mf ON md.maker_id = mf.maker_id
\* The recalls that have a row in the join, and the joined row of one.
JoinedIds ==
    {r \in DOMAIN tbl_recall :
        /\ tbl_recall[r].model_id \in DOMAIN tbl_model
        /\ tbl_model[tbl_recall[r].model_id].maker_id \in DOMAIN tbl_manufacturer}

JoinRow(r) ==
    LET rc == tbl_recall[r]
        md == tbl_model[rc.model_id]
        mf == tbl_manufacturer[md.maker_id]
    IN  [region_at |-> mf.region_at,
         maker_name |-> mf.maker_name,
         model_name |-> md.model_name,
         start_date |-> md.start_date,
         end_date |-> md.end_date,
         recall_quantity |-> rc.recall_quantity]

\* name LIKE CONCAT('%', s, '%'): s occurs in name (NULL LIKE ... is not true)
Like(name, s) ==
    /\ name # NULL
    /\ \E i \in 1..(Len(Val(name)) - Len(s) + 1) :
          SubSeq(Val(name), i, i + Len(s) - 1) = s

\* How many %s placeholders a clause binds.
Placeholders(clause) ==
    IF clause \in {SCOPE_CLAUSE, MAKER_CLAUSE} THEN 1 ELSE 2

\* One clause on one joined row, its placeholders bound to params[p], params[p+1].
EvalClause(row, clause, params, p) ==
    CASE clause = SCOPE_CLAUSE ->
            row.region_at # NULL /\ Val(row.region_at) = params[p].text
      [] clause = MAKER_CLAUSE ->
            row.maker_name # NULL /\ Val(row.maker_name) = params[p].text
      [] clause = YEAR_CLAUSE ->
            /\ row.start_date # NULL
            /\ row.end_date # NULL
            /\ DateLE(Val(row.start_date), params[p].date)
            /\ DateLE(params[p + 1].date, Val(row.end_date))
      [] clause = SEARCH_CLAUSE ->
            \/ Like(row.maker_name, params[p].text)
            \/ Like(row.model_name, params[p + 1].text)

\* WHERE c1 AND c2 AND ...: the clauses from the i-th on, binding from params[p] on.
RECURSIVE EvalWhere(_, _, _, _)
EvalWhere(row, w, i, p) ==
    IF i > Len(w.where)
    THEN TRUE
    ELSE /\ EvalClause(row, w.where[i], w.params, p)
         /\ EvalWhere(row, w, i + 1, p + Placeholders(w.where[i]))

\* The recalls whose joined row passes the WHERE.
Selected(w) == {r \in JoinedIds : EvalWhere(JoinRow(r), w, 1, 1)}

----------------------------------------------------------------------------
(* What each query computes on the store when its round trip succeeds.      *)

\* The orders in which a result set S may come back: every arrangement of S.
Arrangements(S) ==
    {f \in [1..Cardinality(S) -> S] :
        \A i, j \in 1..Cardinality(S) : i < j => f[i] # f[j]}

\* LIMIT n
Limit(rows, n) == SubSeq(rows, 1, Min(n, Len(rows)))

\* a plausible slip: ORDER BY md.end_date (ascending)
EndDateDescAscending(e1, e2) ==
    \/ e1 = NULL
    \/ e2 # NULL /\ DateLE(Val(e1), Val(e2))

\* ORDER BY md.end_date DESC: e1 may come before e2 (MySQL sorts NULL lowest)
EndDateDesc(e1, e2) ==
    \/ e2 = NULL
    \/ e1 # NULL /\ DateLE(Val(e2), Val(e1))

\* SELECT COALESCE(...) ...: the RecallView built from one joined row
RecallView(row) ==
    [scope |-> COALESCE(row.region_at, <<>>),
     maker |-> COALESCE(row.maker_name, <<>>),
     car_name |-> COALESCE(row.model_name, <<>>),
     start_date |-> row.start_date,
     end_date |-> row.end_date,
     target_units |-> COALESCE(row.recall_quantity, 0)]

\* The recall ids a fetch_recalls query may select, in the order of the rows.
RecallOrders(w, limit) ==
    {Limit(f, limit) :
        f \in {g \in Arrangements(Selected(w)) :
                 \A i, j \in 1..Len(g) :
                    i < j => EndDateDesc(tbl_model[tbl_recall[g[i]].model_id].end_date,
                                         tbl_model[tbl_recall[g[j]].model_id].end_date)}}

\* out.append(RecallView(*row)) for row in cursor.fetchall()
RecallList(w, limit) ==
    {[i \in 1..Len(ids) |-> RecallView(JoinRow(ids[i]))] : ids \in RecallOrders(w, limit)}

RECURSIVE SumQuantity(_)
\* a plausible slip: an absent quantity replaced by 1 instead of 0
SumQuantityNullAsOne(S) ==
    IF S = {}
    THEN 0
    ELSE LET r == CHOOSE x \in S : TRUE
         IN  COALESCE(tbl_recall[r].recall_quantity, 1) + SumQuantity(S \ {r})

\* SUM(COALESCE(rc.recall_quantity, 0)) over the rows of S
SumQuantity(S) ==
    IF S = {}
    THEN 0
    ELSE LET r == CHOOSE x \in S : TRUE
         IN  COALESCE(tbl_recall[r].recall_quantity, 0) + SumQuantity(S \ {r})

\* a plausible slip: the KPI query built without the year filter
KpiWithoutYear(scope, maker, year) ==
    LET S == Selected(BuildWhere(scope, maker, NULL, <<>>))
    IN  <<Cardinality(S), SumQuantity(S)>>

\* SELECT COUNT(*), COALESCE(SUM(COALESCE(rc.recall_quantity, 0)), 0) ... ;
\* return int(cnt or 0), int(units or 0)
Kpi(scope, maker, year) ==
    LET S == Selected(BuildWhere(scope, maker, year, <<>>))
    IN  <<Cardinality(S), SumQuantity(S)>>

\* a plausible slip: ORDER BY recall_cnt (ascending)
CountDescAscending(c1, c2) == c1 <= c2

\* ORDER BY recall_cnt DESC: a group of c1 rows may come before one of c2
CountDesc(c1, c2) == c1 >= c2

\* GROUP BY key ORDER BY recall_cnt DESC LIMIT top_n over the rows S, key[r]
\* the grouping column of row r: the rows <<key, recall_cnt>>
Ranking(S, key, top_n) ==
    LET keys == {key[r] : r \in S}
        cnt == [k \in keys |-> Cardinality({r \in S : key[r] = k})]
    IN  {Limit([i \in 1..Len(f) |-> <<f[i], cnt[f[i]]>>], top_n) :
            f \in {g \in Arrangements(keys) :
                     \A i, j \in 1..Len(g) : i < j => CountDesc(cnt[g[i]], cnt[g[j]])}}

\* fetch_maker_ranking's rows: GROUP BY mf.maker_name
MakerRanking(scope, maker, year, top_n) ==
    LET S == Selected(BuildWhere(scope, maker, year, <<>>))
    IN  Ranking(S, [r \in S |-> JoinRow(r).maker_name], top_n)

\* fetch_model_ranking's rows: GROUP BY md.model_name
ModelRanking(scope, maker, year, top_n) ==
    LET S == Selected(BuildWhere(scope, maker, year, <<>>))
    IN  Ranking(S, [r \in S |-> JoinRow(r).model_name], top_n)

\* a plausible slip: the WHERE of fetch_year_range dropped
DatedModelsAnyDate ==
    {m \in DOMAIN tbl_model :
        tbl_model[m].start_date # NULL \/ tbl_model[m].end_date # NULL}

\* FROM tbl_model WHERE start_date IS NOT NULL AND end_date IS NOT NULL
DatedModels ==
    {m \in DOMAIN tbl_model :
        tbl_model[m].start_date # NULL /\ tbl_model[m].end_date # NULL}

\* MIN(YEAR(start_date)), MAX(YEAR(end_date)) over the rows of M; NULL when no
\* row has the column set
MinStartYear(M) ==
    LET ys == {YEAR(Val(tbl_model[m].start_date)) :
                 m \in {x \in M : tbl_model[x].start_date # NULL}}
    IN  IF ys = {} THEN NULL ELSE Some(CHOOSE y \in ys : \A z \in ys : y <= z)

MaxEndYear(M) ==
    LET ys == {YEAR(Val(tbl_model[m].end_date)) :
                 m \in {x \in M : tbl_model[x].end_date # NULL}}
    IN  IF ys = {} THEN NULL ELSE Some(CHOOSE y \in ys : \A z \in ys : y >= z)

\* if not row or row[0] is None or row[1] is None: return 2000, datetime.now().year
\* return int(row[0]), int(row[1])
YearRange ==
    LET lo == MinStartYear(DatedModels)
        hi == MaxEndYear(DatedModels)
    IN  IF lo = NULL \/ hi = NULL
        THEN <<FALLBACK_MIN_YEAR, now_year>>
        ELSE <<Val(lo), Val(hi)>>

----------------------------------------------------------------------------
(* The process: configuration, calls, results and errors.                   *)

\* the keys of DB_CONFIG, read from the environment variables of the same
\* (upper-case) names
ConnParams == {"host", "port", "user", "password", "database"}

\* os.getenv(name): the value, or None when the variable is absent
getenv(name) == IF name \in environ THEN Some(name) ELSE NULL

\* No key of DB_CONFIG is None.  A connection cannot be made without one of
\* them: the attempt then ends in the driver's error.
ConfigComplete == \A p \in ConnParams : DB_CONFIG[p] # NULL

\* the mysql.connector.Error messages of a failed round trip
CONNECT_FAILED == "connection failed"
QUERY_FAILED == "query failed"

\* How one round trip (connect, execute, fetch) ends: mysql.connector.connect
\* raises when the server cannot be reached or the configuration lacks a value,
\* cursor.execute raises when the server fails the query.
RoundTrip ==
    IF ~ConfigComplete \/ storage = "unreachable" THEN CONNECT_FAILED
    ELSE IF storage = "failing" THEN QUERY_FAILED
    ELSE "ok"

NoArgs ==
    [scope |-> ALL, maker |-> ALL, year |-> NULL, search |-> <<>>, n |-> 0,
     min_year |-> 0, max_year |-> 0]

Idle == [op |-> "idle", args |-> NoArgs, y |-> 0, trend |-> <<>>]

NoError == [type |-> "none", op |-> "none", msg |-> "none"]

\* RuntimeError(f"DB error({op}): {err}")
RuntimeError(op, err) == [type |-> "RuntimeError", op |-> op, msg |-> err]

NoRet ==
    [status |-> "none", op |-> "none", args |-> NoArgs, value |-> <<>>,
     error |-> NoError, fault |-> "none", trips |-> 0]

\* The call op(args) returned value after `trips` successful round trips.
Returned(op, args, value, trips) ==
    [status |-> "ok", op |-> op, args |-> args, value |-> value,
     error |-> NoError, fault |-> "none", trips |-> trips]

\* The call op(args) ended with exception `error`; `fault` is the storage
\* failure met, after `trips` successful round trips.
Raised(op, args, error, fault, trips) ==
    [status |-> "error", op |-> op, args |-> args, value |-> <<>>,
     error |-> error, fault |-> fault, trips |-> trips]

\* load_dotenv(); HOST = os.getenv("HOST"); ...; DB_CONFIG = {...}
\* The module body has no check of the values: the import always succeeds.
Load ==
    /\ ~imported
    /\ ret.status = "none"
    /\ imported' = TRUE
    /\ DB_CONFIG' = [p \in ConnParams |-> getenv(p)]
    /\ ret' = Returned("import", NoArgs, <<>>, 0)
    /\ UNCHANGED <<environ, storage, store, call>>

\* The caller is between two calls: the module is imported, no call is in
\* progress and the last result has been taken.
Ready == imported /\ call = Idle /\ ret.status = "none"

\* app.py takes what the call gave it: it renders the value, or shows the
\* error (st.error(str(e)); st.stop()).
render ==
    /\ ret.status # "none"
    /\ ret' = NoRet
    /\ UNCHANGED <<environ, DB_CONFIG, imported, storage, store, call>>

\* One-query operations: try: connect, execute, fetch; except
\* mysql.connector.Error as err: raise RuntimeError(f"DB error(<name>): {err}")
Query(op, args, results) ==
    /\ Ready
    /\ IF RoundTrip = "ok"
       THEN \E v \in results : ret' = Returned(op, args, v, 1)
       ELSE ret' = Raised(op, args, RuntimeError(op, RoundTrip), RoundTrip, 0)
    /\ UNCHANGED <<environ, DB_CONFIG, imported, storage, store, call>>

fetch_recalls(scope, maker, manufacture_year, search_text, limit) ==
    Query("fetch_recalls",
          [NoArgs EXCEPT !.scope = scope, !.maker = maker, !.year = manufacture_year,
                         !.search = search_text, !.n = limit],
          RecallList(BuildWhere(scope, maker, manufacture_year, search_text), limit))

\* the order of the symbols under the collation of maker_name
Alphabet == <<" ", "a", "b", "c", "x">>
Rank(c) == CHOOSE i \in 1..Len(Alphabet) : Alphabet[i] = c

\* s <= t under ORDER BY
RECURSIVE TextLE(_, _)
TextLE(s, t) ==
    IF s = <<>> THEN TRUE
    ELSE IF t = <<>> THEN FALSE
    ELSE IF Head(s) = Head(t) THEN TextLE(Tail(s), Tail(t))
    ELSE Rank(Head(s)) < Rank(Head(t))

\* SELECT DISTINCT maker_name FROM tbl_manufacturer [WHERE region_at = %s]
\* ORDER BY maker_name; a NULL or empty name is skipped (if maker_name:)
MakerList(scope) ==
    LET names == {tbl_manufacturer[m].maker_name :
                    m \in {x \in DOMAIN tbl_manufacturer :
                             scope = ALL \/ tbl_manufacturer[x].region_at = Some(scope)}}
        shown == {Val(nm) : nm \in {x \in names : x # NULL /\ x # Some(<<>>)}}
    IN  {f \in Arrangements(shown) :
            \A i, j \in 1..Len(f) : i < j => TextLE(f[i], f[j])}

fetch_makers(scope) ==
    Query("fetch_makers", [NoArgs EXCEPT !.scope = scope], MakerList(scope))

fetch_year_range ==
    Query("fetch_year_range", NoArgs, {YearRange})

fetch_kpi(scope, maker, year) ==
    Query("fetch_kpi", [NoArgs EXCEPT !.scope = scope, !.maker = maker, !.year = year],
          {Kpi(scope, maker, year)})

fetch_maker_ranking(scope, maker, year, top_n) ==
    Query("fetch_maker_ranking",
          [NoArgs EXCEPT !.scope = scope, !.maker = maker, !.year = year, !.n = top_n],
          MakerRanking(scope, maker, year, top_n))

fetch_model_ranking(scope, maker, year, top_n) ==
    Query("fetch_model_ranking",
          [NoArgs EXCEPT !.scope = scope, !.maker = maker, !.year = year, !.n = top_n],
          ModelRanking(scope, maker, year, top_n))

\* fetch_year_trend: trend = []; the loop variable starts at min_year
fetch_year_trend(scope, maker, min_year, max_year) ==
    /\ Ready
    /\ call' = [op |-> "fetch_year_trend",
                args |-> [NoArgs EXCEPT !.scope = scope, !.maker = maker,
                                        !.min_year = min_year, !.max_year = max_year],
                y |-> min_year, trend |-> <<>>]
    /\ UNCHANGED <<environ, DB_CONFIG, imported, storage, store, ret>>

\* a plausible slip: the failure of one year swallowed, the list built so far
\* returned
TrendFailureReturnsPartial(o) ==
    Returned("fetch_year_trend", call.args, call.trend, call.y - call.args.min_year)

\* fetch_kpi raised inside the loop: nothing in fetch_year_trend catches it, so
\* the caller gets fetch_kpi's RuntimeError and the list built so far is lost
TrendFailure(o) ==
    Raised("fetch_year_trend", call.args, RuntimeError("fetch_kpi", o), o,
           call.y - call.args.min_year)

\* a plausible slip: years without a recall left out (what a GROUP BY gives)
TrendAppendSkipZero(trend, y, kpi) ==
    IF kpi[1] = 0 THEN trend ELSE Append(trend, <<y, kpi[1]>>)

\* cnt, _ = <kpi>; trend.append((y, cnt))
TrendAppend(trend, y, kpi) == Append(trend, <<y, kpi[1]>>)

\* for y in range(min_year, max_year + 1):
\*     cnt, _ = fetch_kpi(scope, maker, y); trend.append((y, cnt))
\* return trend
TrendStep ==
    /\ imported
    /\ call.op = "fetch_year_trend"
    /\ IF call.y > call.args.max_year
       THEN /\ ret' = Returned("fetch_year_trend", call.args, call.trend,
                                call.y - call.args.min_year)
            /\ call' = Idle
       ELSE IF RoundTrip = "ok"
            THEN /\ call' = [call EXCEPT
                               !.trend = TrendAppend(@, call.y,
                                   Kpi(call.args.scope, call.args.maker, Some(call.y))),
                               !.y = @ + 1]
                 /\ UNCHANGED ret
            ELSE /\ ret' = [TrendFailure(RoundTrip) EXCEPT !.fault = RoundTrip]
                 /\ call' = Idle
    /\ UNCHANGED <<environ, DB_CONFIG, imported, storage, store>>

\* The server goes down, starts failing queries, or recovers, at any time
\* between two round trips.
StorageChange ==
    /\ ret.status = "none"
    /\ \E h \in {"up", "unreachable", "failing"} : h # storage /\ storage' = h
    /\ UNCHANGED <<environ, DB_CONFIG, imported, store, call, ret>>

\* _build_where applied on its own
build_where(scope, maker, manufacture_year, search_text) ==
    /\ Ready
    /\ ret' = Returned("_build_where",
                       [NoArgs EXCEPT !.scope = scope, !.maker = maker,
                                      !.year = manufacture_year, !.search = search_text],
                       BuildWhere(scope, maker, manufacture_year, search_text), 0)
    /\ UNCHANGED <<environ, DB_CONFIG, imported, storage, store, call>>

----------------------------------------------------------------------------
(* The stores and the inputs of the checked runs.                           *)

LastYear == FirstYear + NumYears - 1
Years == FirstYear..LastYear

ACME == <<"a", "c">>
Scopes == {ALL, DOMESTIC, OVERSEAS}

\* tbl_manufacturer: Acme (domestic) and a second maker of region r
Manufacturers(r) ==
    1 :> [maker_name |-> Some(ACME), region_at |-> Some(DOMESTIC)]
    @@ 2 :> [maker_name |-> Some(<<"b">>), region_at |-> Some(r)]

\* tbl_model: model 1 ("x") of maker 1, model 2 ("cx") of maker 2
Models(s1, e1, s2, e2) ==
    1 :> [maker_id |-> 1, model_name |-> Some(<<"x">>), start_date |-> s1, end_date |-> e1]
    @@ 2 :> [maker_id |-> 2, model_name |-> Some(<<"c", "x">>), start_date |-> s2,
             end_date |-> e2]

\* the rows a recall table is filled with
RecallKinds ==
    <<[model_id |-> 1, recall_quantity |-> Some(1000)],
      [model_id |-> 2, recall_quantity |-> Some(2500)],
      [model_id |-> 2, recall_quantity |-> NULL]>>

\* tbl_recall: up to MaxRecalls rows (one table per multiset of rows)
RecallTables ==
    UNION {{[i \in 1..n |-> RecallKinds[f[i]]] :
              f \in {g \in [1..n -> 1..Len(RecallKinds)] :
                       \A i, j \in 1..n : i < j => g[i] <= g[j]}} :
           n \in 0..MaxRecalls}

\* the process after import, with a complete environment and the server up
InitLoaded ==
    /\ environ = ConnParams
    /\ DB_CONFIG = [p \in ConnParams |-> Some(p)]
    /\ imported = TRUE
    /\ storage = "up"
    /\ call = Idle
    /\ ret = NoRet

----------------------------------------------------------------------------
(* SpecWhere: _build_where on every input.                                  *)

SearchSymbols == {" ", "a", "c"}
SearchTexts == UNION {[1..n -> SearchSymbols] : n \in 0..MaxSearchLen}

AllYearFilters == {NULL} \cup {Some(y) : y \in (FirstYear - 1)..(LastYear + 2)}

InitWhere ==
    /\ InitLoaded
    /\ now_year = LastYear + 2
    /\ tbl_manufacturer = Manufacturers(OVERSEAS)
    /\ tbl_model = Models(NULL, NULL, NULL, NULL)
    /\ tbl_recall = <<>>

NextWhere ==
    \/ \E scope \in Scopes, maker \in {ALL, ACME, <<"b">>}, year \in AllYearFilters,
          text \in SearchTexts :
           build_where(scope, maker, year, text)
    \/ render

SpecWhere == InitWhere /\ [][NextWhere]_vars

----------------------------------------------------------------------------
(* Filter Builder.                                                          *)

\* The search token a caller means: the text between its first and its last
\* symbol that is not white space; empty when there is none.
Trimmed(text) ==
    LET inked == {i \in 1..Len(text) : text[i] # " "}
    IN  IF inked = {}
        THEN <<>>
        ELSE SubSeq(text, CHOOSE i \in inked : \A j \in inked : i <= j,
                          CHOOSE i \in inked : \A j \in inked : i >= j)

\* Whether the input of a clause is not its no-op value.
ActiveClause(clause, a) ==
    CASE clause = SCOPE_CLAUSE -> a.scope # ALL
      [] clause = MAKER_CLAUSE -> a.maker # ALL
      [] clause = YEAR_CLAUSE -> a.year # NULL
      [] clause = SEARCH_CLAUSE -> Trimmed(a.search) # <<>>

\* The parameters the clause of an active input binds.
ClauseParams(clause, a) ==
    CASE clause = SCOPE_CLAUSE -> <<TextParam(a.scope)>>
      [] clause = MAKER_CLAUSE -> <<TextParam(a.maker)>>
      [] clause = YEAR_CLAUSE ->
            <<DateParam(<<Val(a.year), 12, 31>>), DateParam(<<Val(a.year), 1, 1>>)>>
      [] clause = SEARCH_CLAUSE ->
            <<TextParam(Trimmed(a.search)), TextParam(Trimmed(a.search))>>

ClauseOrder == <<SCOPE_CLAUSE, MAKER_CLAUSE, YEAR_CLAUSE, SEARCH_CLAUSE>>

\* The parameters of the clauses w[i..], in the order of the clauses.
RECURSIVE ParamsOf(_, _, _)
ParamsOf(w, i, a) ==
    IF i > Len(w) THEN <<>> ELSE ClauseParams(w[i], a) \o ParamsOf(w, i + 1, a)

\* C1: _build_where emits exactly one clause per input that is not a no-op
\* and none for a no-op input (scope ALL, maker ALL, year absent, search text
\* empty after trimming), in the fixed order scope, maker, year, search; the
\* bound parameters follow in the same order (scope, maker, Dec 31 of Y,
\* Jan 1 of Y, token, token); with four no-op inputs the predicate is empty.
C1_ClausesPerActiveInput ==
    ret.op = "_build_where" =>
        LET a == ret.args
            w == ret.value.where
        IN  /\ \A i \in 1..Len(w) : w[i] \in {ClauseOrder[k] : k \in 1..4}
            /\ \A k \in 1..4 :
                  Cardinality({i \in 1..Len(w) : w[i] = ClauseOrder[k]})
                      = IF ActiveClause(ClauseOrder[k], a) THEN 1 ELSE 0
            /\ \A i, j \in 1..Len(w) :
                  i < j => \E k, l \in 1..4 :
                              k < l /\ w[i] = ClauseOrder[k] /\ w[j] = ClauseOrder[l]
            /\ ret.value.params = ParamsOf(w, 1, a)
            /\ (\A k \in 1..4 : ~ActiveClause(ClauseOrder[k], a))
                  => ret.value.where = <<>> /\ ret.value.params = <<>>

\* All four filters active, the search text padded with white space.
C1_Witness ==
    /\ ret.op = "_build_where"
    /\ ret.args.scope = DOMESTIC
    /\ ret.args.maker = ACME
    /\ ret.args.year = Some(FirstYear + 1)
    /\ ret.args.search = <<" ", "a">>
    /\ ret.value.where = ClauseOrder
    /\ Len(ret.value.params) = 6

----------------------------------------------------------------------------
(* SpecOverlap: one recall of one model, every production period, every     *)
(* year filter.                                                             *)

\* the dates a period may start or end on: the first, a middle and the last
\* day of the years around those of the store
OverlapDates ==
    {date(y, md[1], md[2]) :
        y \in (FirstYear - 2)..(LastYear + 3), md \in {<<1, 1>>, <<6, 15>>, <<12, 31>>}}

OverlapQueryYears == (FirstYear - 3)..(LastYear + 4)

InitOverlap ==
    /\ InitLoaded
    /\ now_year = LastYear + 2
    /\ tbl_manufacturer = Manufacturers(OVERSEAS)
    /\ \E s1, e1 \in {NULL} \cup {Some(d) : d \in OverlapDates} :
          tbl_model = Models(s1, e1, NULL, NULL)
    /\ tbl_recall = <<RecallKinds[1]>>

NextOverlap ==
    \/ \E y \in OverlapQueryYears : fetch_recalls(ALL, ALL, Some(y), <<>>, DEFAULT_LIMIT)
    \/ \E y \in OverlapQueryYears : fetch_kpi(ALL, ALL, Some(y))
    \/ render

SpecOverlap == InitOverlap /\ [][NextOverlap]_vars

\* a date as the number yyyymmdd
DayNumber(d) == d[1] * 10000 + d[2] * 100 + d[3]

\* The single recall of the store came back from the finished query.
OverlapMatched ==
    IF ret.op = "fetch_recalls" THEN Len(ret.value) = 1 ELSE ret.value[1] = 1

\* C2: with year filter Y a recall is matched if and only if its model's
\* production period has start_date <= Dec 31 of Y and end_date >= Jan 1 of
\* Y, that is, if and only if Y lies between the year of the start and the
\* year of the end; a model produced 2020-01-01..2025-12-31 is matched for
\* 2020, 2022 and 2025 and not for 2019 or 2026.
C2_YearOverlap ==
    (ret.status = "ok" /\ ret.op \in {"fetch_recalls", "fetch_kpi"} /\ ret.args.year # NULL) =>
        LET Y == Val(ret.args.year)
            s == tbl_model[1].start_date
            e == tbl_model[1].end_date
        IN  /\ OverlapMatched <=>
                  /\ s # NULL
                  /\ e # NULL
                  /\ DayNumber(Val(s)) <= Y * 10000 + 1231
                  /\ DayNumber(Val(e)) >= Y * 10000 + 101
            /\ (s # NULL /\ e # NULL) =>
                  (OverlapMatched <=> (Val(s)[1] <= Y /\ Y <= Val(e)[1]))
            /\ (s = Some(<<2020, 1, 1>>) /\ e = Some(<<2025, 12, 31>>)) =>
                  /\ Y \in {2020, 2022, 2025} => OverlapMatched
                  /\ Y \in {2019, 2026} => ~OverlapMatched

\* The model produced 2020-01-01..2025-12-31 is listed under its last year.
C2_Witness ==
    /\ ret.status = "ok"
    /\ ret.op = "fetch_recalls"
    /\ tbl_model[1].start_date = Some(<<2020, 1, 1>>)
    /\ tbl_model[1].end_date = Some(<<2025, 12, 31>>)
    /\ ret.args.year = Some(2025)
    /\ Len(ret.value) = 1

----------------------------------------------------------------------------
(* SpecService: the seven operations against a server that may go down or   *)
(* fail queries between any two round trips.  Spec: the same from the start *)
(* of the process, with any subset of the connection parameters set.        *)

\* Acme's model 1 produced over all the years of the store, model 2 of the
\* second maker in the second year only
ServiceModels ==
    Models(Some(date(FirstYear, 1, 1)), Some(date(LastYear, 12, 31)),
           Some(date(FirstYear + 1, 1, 1)), Some(date(FirstYear + 1, 12, 31)))

ServiceYearFilters == {NULL, Some(FirstYear), Some(FirstYear + 1)}

\* fetch_year_trend's ranges: from a year before or inside the store's years,
\* up to MaxSpan years long, and the reversed ones
TrendRanges ==
    {<<y1, y1 + d>> : y1 \in {FirstYear - 1, FirstYear + 1}, d \in (0 - MaxSpan)..MaxSpan}

InitService ==
    /\ InitLoaded
    /\ now_year = LastYear + 2
    /\ tbl_manufacturer = Manufacturers(OVERSEAS)
    /\ tbl_model = ServiceModels
    /\ tbl_recall \in RecallTables

Calls ==
    \/ \E scope \in {ALL, DOMESTIC}, year \in ServiceYearFilters :
           fetch_recalls(scope, ALL, year, <<>>, DEFAULT_LIMIT)
    \/ \E scope \in {ALL, DOMESTIC} : fetch_makers(scope)
    \/ fetch_year_range
    \/ \E scope \in {ALL, DOMESTIC}, year \in ServiceYearFilters :
           fetch_kpi(scope, ALL, year)
    \/ \E scope \in {ALL, DOMESTIC}, year \in ServiceYearFilters :
           fetch_maker_ranking(scope, ALL, year, DEFAULT_TOP_N)
    \/ \E scope \in {ALL, DOMESTIC}, year \in ServiceYearFilters :
           fetch_model_ranking(scope, ALL, year, DEFAULT_TOP_N)
    \/ \E scope \in {ALL, OVERSEAS}, maker \in {ALL, ACME}, range \in TrendRanges :
           fetch_year_trend(scope, maker, range[1], range[2])
    \/ TrendStep
    \/ render

NextService == Calls \/ StorageChange

SpecService == InitService /\ [][NextService]_vars

Init ==
    /\ environ \in SUBSET ConnParams
    /\ DB_CONFIG = [p \in ConnParams |-> NULL]
    /\ imported = FALSE
    /\ storage = "up"
    /\ call = Idle
    /\ ret = NoRet
    /\ now_year = LastYear + 2
    /\ tbl_manufacturer = Manufacturers(OVERSEAS)
    /\ tbl_model = ServiceModels
    /\ tbl_recall = <<RecallKinds[1], RecallKinds[3]>>

Next == Load \/ Calls \/ StorageChange

Spec == Init /\ [][Next]_vars

----------------------------------------------------------------------------
(* What the filters mean, stated on the tables.                             *)

\* text t occurs in name
Occurs(t, name) ==
    \E i \in 0..(Len(name) - Len(t)) : \A k \in 1..Len(t) : name[i + k] = t[k]

\* Recall r, through its model and its manufacturer, passes every active
\* filter of the arguments a.
Matches(r, a) ==
    /\ tbl_recall[r].model_id \in DOMAIN tbl_model
    /\ tbl_model[tbl_recall[r].model_id].maker_id \in DOMAIN tbl_manufacturer
    /\ LET md == tbl_model[tbl_recall[r].model_id]
           mf == tbl_manufacturer[md.maker_id]
           t == Trimmed(a.search)
       IN  /\ a.scope = ALL \/ mf.region_at = Some(a.scope)
           /\ a.maker = ALL \/ mf.maker_name = Some(a.maker)
           /\ \/ a.year = NULL
              \/ /\ md.start_date # NULL
                 /\ md.end_date # NULL
                 /\ DayNumber(Val(md.start_date)) <= Val(a.year) * 10000 + 1231
                 /\ DayNumber(Val(md.end_date)) >= Val(a.year) * 10000 + 101
           /\ \/ t = <<>>
              \/ mf.maker_name # NULL /\ Occurs(t, Val(mf.maker_name))
              \/ md.model_name # NULL /\ Occurs(t, Val(md.model_name))

Matching(a) == {r \in DOMAIN tbl_recall : Matches(r, a)}

----------------------------------------------------------------------------
(* Errors and results of the operations.                                    *)

Operations ==
    {"fetch_recalls", "fetch_makers", "fetch_year_range", "fetch_kpi",
     "fetch_maker_ranking", "fetch_year_trend", "fetch_model_ranking"}

\* C3: a storage failure (connection or query) during a call of one of the
\* seven operations reaches the caller as one generic error that carries the
\* name of the operation that was invoked and the underlying message.
C3_ErrorNamesInvokedOperation ==
    (ret.op \in Operations /\ ret.fault # "none") =>
        /\ ret.status = "error"
        /\ ret.error.type = "RuntimeError"
        /\ ret.error.op = ret.op
        /\ ret.error.msg = ret.fault

\* C4 as claimed: a successful fetch_year_trend(scope, maker, Y1, Y2) returns
\* exactly Y2 - Y1 + 1 entries, for every pair of years.
C4_LengthForEveryPair ==
    (ret.op = "fetch_year_trend" /\ ret.status = "ok") =>
        Len(ret.value) = ret.args.max_year - ret.args.min_year + 1

\* C4: a successful fetch_year_trend(scope, maker, Y1, Y2) with Y1 <= Y2
\* returns exactly Y2 - Y1 + 1 entries, one per year Y1, Y1 + 1, ..., Y2 in
\* ascending order, each with the number of recalls matching scope, maker
\* and that year, zero included; with Y2 < Y1 it returns no entry.
C4_TrendComplete ==
    (ret.op = "fetch_year_trend" /\ ret.status = "ok") =>
        LET Y1 == ret.args.min_year
            Y2 == ret.args.max_year
        IN  /\ Y1 <= Y2 => Len(ret.value) = Y2 - Y1 + 1
            /\ Y2 < Y1 => ret.value = <<>>
            /\ \A i \in 1..Len(ret.value) :
                  /\ ret.value[i][1] = Y1 + i - 1
                  /\ ret.value[i][2] =
                        Cardinality(Matching([ret.args EXCEPT !.year = Some(Y1 + i - 1)]))

\* A trend of four years, the first without a recall, a later one with some.
C4_Witness ==
    /\ ret.op = "fetch_year_trend"
    /\ ret.status = "ok"
    /\ Len(ret.value) = 4
    /\ ret.value[1][2] = 0
    /\ \E i \in 2..4 : ret.value[i][2] > 0

\* C5: with a connection parameter absent from the environment the process
\* fails at import with a configuration error: the import does not complete,
\* and no later call ends in a storage failure.
C5_ConfigFailFast ==
    environ # ConnParams =>
        /\ ~imported
        /\ ret.fault = "none"

\* C10: a call ends with a complete result or with an error and no value: a
\* fetch_year_trend over [Y1, Y2] that meets a storage failure at year k, the
\* years before k done, gives its caller the error and none of the entries
\* of Y1..k-1; a call that returns has made all its round trips.
C10_NoPartialResult ==
    ret.op \in Operations =>
        /\ ret.fault # "none" => ret.status = "error" /\ ret.value = <<>>
        /\ ret.status = "error" => ret.fault # "none" /\ ret.value = <<>>
        /\ ret.status = "ok" =>
              ret.trips = IF ret.op = "fetch_year_trend"
                          THEN Max(0, ret.args.max_year - ret.args.min_year + 1)
                          ELSE 1
        /\ (ret.status = "ok" /\ ret.op = "fetch_year_trend") =>
              Len(ret.value) = ret.trips

\* The third year of a trend failed after two years had been counted.
C10_Witness ==
    /\ ret.op = "fetch_year_trend"
    /\ ret.status = "error"
    /\ ret.trips = 2
    /\ ret.args.max_year - ret.args.min_year >= 2
    /\ ret.value = <<>>

----------------------------------------------------------------------------
(* SpecList: fetch_recalls over stores of two makers, two models and up to  *)
(* MaxRecalls recalls.                                                      *)

\* a period starts on the first day of the first year of the store or has no
\* start, and ends on the last day of its first or last year or has no end
EdgeStarts == {NULL, Some(date(FirstYear, 1, 1))}
EdgeEnds == {NULL, Some(date(FirstYear, 12, 31)), Some(date(LastYear, 12, 31))}

InitQuery ==
    /\ InitLoaded
    /\ now_year = LastYear + 2
    /\ \E r \in {DOMESTIC, OVERSEAS} : tbl_manufacturer = Manufacturers(r)
    /\ \E s1 \in EdgeStarts, e1 \in EdgeEnds, e2 \in EdgeEnds :
          tbl_model = Models(s1, e1, Some(date(FirstYear, 1, 1)), e2)
    /\ tbl_recall \in RecallTables

\* no year, a year before the store's, its second year, and one after them
QueryYearFilters == {NULL, Some(FirstYear - 1), Some(FirstYear + 1), Some(LastYear + 2)}
Limits == (0..MaxLimit) \cup {DEFAULT_LIMIT}

NextList ==
    \/ \E scope \in {ALL, DOMESTIC}, maker \in {ALL, ACME}, year \in QueryYearFilters,
          text \in {<<>>, <<"a", " ">>}, limit \in Limits :
           fetch_recalls(scope, maker, year, text, limit)
    \/ render

SpecList == InitQuery /\ [][NextList]_vars


\* The record a caller sees for recall r: every display field, an absent text
\* as the empty text, an absent quantity as 0.
ViewOf(r) ==
    LET md == tbl_model[tbl_recall[r].model_id]
        mf == tbl_manufacturer[md.maker_id]
    IN  [scope |-> IF mf.region_at = NULL THEN <<>> ELSE Val(mf.region_at),
         maker |-> IF mf.maker_name = NULL THEN <<>> ELSE Val(mf.maker_name),
         car_name |-> IF md.model_name = NULL THEN <<>> ELSE Val(md.model_name),
         start_date |-> md.start_date,
         end_date |-> md.end_date,
         target_units |-> IF tbl_recall[r].recall_quantity = NULL
                          THEN 0 ELSE Val(tbl_recall[r].recall_quantity)]

\* The rank of recall r's model end date: later dates higher, no date lowest.
EndRank(r) ==
    LET e == tbl_model[tbl_recall[r].model_id].end_date
    IN  IF e = NULL THEN 0 ELSE DayNumber(Val(e))

\* The store of the scenario: Acme (domestic), its model produced
\* 2021-01-01..2023-12-31, one recall of 1000 units.
AcmeScenario ==
    /\ tbl_manufacturer[1] = [maker_name |-> Some(ACME), region_at |-> Some(DOMESTIC)]
    /\ tbl_model[1].maker_id = 1
    /\ tbl_model[1].start_date = Some(<<2021, 1, 1>>)
    /\ tbl_model[1].end_date = Some(<<2023, 12, 31>>)
    /\ tbl_recall = <<[model_id |-> 1, recall_quantity |-> Some(1000)]>>

\* C6: fetch_recalls returns the first `limit` records, in non-increasing
\* model end-date order, of the recalls whose model and manufacturer pass
\* every active filter: each record is that of a matching recall, no recall
\* gives two records, no recall left out ends later than one returned, and
\* there are min(limit, number of matching recalls) records.  In the Acme
\* scenario scope = domestic, maker = all, year = 2022 gives one record of
\* 1000 units and year = 2025 gives none.
C6_ListRecalls ==
    (ret.op = "fetch_recalls" /\ ret.status = "ok") =>
        LET a == ret.args
            M == Matching(a)
            k == Min(a.n, Cardinality(M))
        IN  /\ Len(ret.value) = k
            /\ Len(ret.value) <= a.n
            /\ \E ids \in [1..k -> M] :
                  /\ \A i, j \in 1..k : i < j => ids[i] # ids[j]
                  /\ \A i \in 1..k : ret.value[i] = ViewOf(ids[i])
                  /\ \A i, j \in 1..k : i < j => EndRank(ids[i]) >= EndRank(ids[j])
                  /\ \A r \in M : \A i \in 1..k :
                        (\A j \in 1..k : ids[j] # r) => EndRank(ids[i]) >= EndRank(r)
            /\ (AcmeScenario /\ a.scope = DOMESTIC /\ a.maker = ALL /\ a.search = <<>>
                  /\ a.n >= 1) =>
                  /\ a.year = Some(2022) =>
                        Len(ret.value) = 1 /\ ret.value[1].target_units = 1000
                  /\ a.year = Some(2025) => ret.value = <<>>

\* The Acme scenario listed under 2022: one record of 1000 units.
C6_Witness ==
    /\ ret.op = "fetch_recalls"
    /\ ret.status = "ok"
    /\ AcmeScenario
    /\ ret.args.scope = DOMESTIC
    /\ ret.args.maker = ALL
    /\ ret.args.year = Some(2022)
    /\ ret.args.search = <<>>
    /\ Len(ret.value) = 1
    /\ ret.value[1].target_units = 1000

----------------------------------------------------------------------------
(* SpecStats: fetch_kpi and the two rankings over the same stores.          *)

TopNs == (0..MaxLimit) \cup {DEFAULT_TOP_N}

NextStats ==
    \/ \E scope \in {ALL, DOMESTIC}, maker \in {ALL, ACME}, year \in QueryYearFilters :
           fetch_kpi(scope, maker, year)
    \/ \E scope \in {ALL, DOMESTIC}, maker \in {ALL, ACME}, year \in QueryYearFilters,
          top_n \in TopNs :
           fetch_maker_ranking(scope, maker, year, top_n)
    \/ \E scope \in {ALL, DOMESTIC}, maker \in {ALL, ACME}, year \in QueryYearFilters,
          top_n \in TopNs :
           fetch_model_ranking(scope, maker, year, top_n)
    \/ render

SpecStats == InitQuery /\ [][NextStats]_vars

\* The units of the matching recalls among the first n rows of tbl_recall, a
\* recall without a quantity adding nothing.
RECURSIVE UnitsUpTo(_, _)
UnitsUpTo(n, a) ==
    IF n = 0
    THEN 0
    ELSE UnitsUpTo(n - 1, a)
         + (IF Matches(n, a) /\ tbl_recall[n].recall_quantity # NULL
            THEN Val(tbl_recall[n].recall_quantity)
            ELSE 0)

\* C7: fetch_kpi returns (number of matching recalls, sum of their unit
\* quantities); a recall with no quantity is counted and adds 0 units; the
\* pair is two integers, (0, 0) when nothing matches.
C7_KpiNullAsZero ==
    (ret.op = "fetch_kpi" /\ ret.status = "ok") =>
        /\ Len(ret.value) = 2
        /\ ret.value[1] \in Nat
        /\ ret.value[2] \in Nat
        /\ ret.value[1] = Cardinality(Matching(ret.args))
        /\ ret.value[2] = UnitsUpTo(Len(tbl_recall), ret.args)
        /\ Matching(ret.args) = {} => ret.value = <<0, 0>>

\* Two recalls match, one of 2500 units and one without a quantity.
C7_Witness ==
    /\ ret.op = "fetch_kpi"
    /\ ret.status = "ok"
    /\ \E r \in Matching(ret.args) : tbl_recall[r].recall_quantity = NULL
    /\ ret.value = <<2, 2500>>

\* The grouping column of recall r in the ranking that returned.
GroupOf(r) ==
    LET md == tbl_model[tbl_recall[r].model_id]
    IN  IF ret.op = "fetch_maker_ranking"
        THEN tbl_manufacturer[md.maker_id].maker_name
        ELSE md.model_name

\* C9: a ranking is the count-descending top-N of the groups: at most top_n
\* rows, one per group and no group twice, each with the number of matching
\* recalls of its group, the counts non-increasing, and no group left out
\* has more recalls than one returned.
C9_RankingTopN ==
    (ret.op \in {"fetch_maker_ranking", "fetch_model_ranking"} /\ ret.status = "ok") =>
        LET M == Matching(ret.args)
            groups == {GroupOf(r) : r \in M}
            size(g) == Cardinality({r \in M : GroupOf(r) = g})
            rows == ret.value
        IN  /\ Len(rows) <= ret.args.n
            /\ Len(rows) = Min(ret.args.n, Cardinality(groups))
            /\ \A i \in 1..Len(rows) : rows[i][1] \in groups /\ rows[i][2] = size(rows[i][1])
            /\ \A i, j \in 1..Len(rows) : i < j => rows[i][1] # rows[j][1]
            /\ \A i, j \in 1..Len(rows) : i < j => rows[i][2] >= rows[j][2]
            /\ \A g \in groups :
                  (\A i \in 1..Len(rows) : rows[i][1] # g) =>
                      \A i \in 1..Len(rows) : rows[i][2] >= size(g)

\* Two makers ranked, the first with more recalls than the second.
C9_Witness ==
    /\ ret.op = "fetch_maker_ranking"
    /\ ret.status = "ok"
    /\ Len(ret.value) = 2
    /\ ret.value[1][2] > ret.value[2][2]

----------------------------------------------------------------------------
(* SpecYears: fetch_year_range over every dating of the two models.         *)

YearDates == {date(y, md[1], md[2]) : y \in Years, md \in {<<1, 1>>, <<12, 31>>}}

InitYears ==
    /\ InitLoaded
    /\ now_year \in {LastYear + 1, LastYear + 2}
    /\ tbl_manufacturer = Manufacturers(OVERSEAS)
    /\ \E s1, e1, s2, e2 \in {NULL} \cup {Some(d) : d \in YearDates} :
          tbl_model = Models(s1, e1, s2, e2)
    /\ tbl_recall = <<>>

NextYears == fetch_year_range \/ render

SpecYears == InitYears /\ [][NextYears]_vars

StartYears(M) == {Val(tbl_model[m].start_date)[1] : m \in {x \in M : tbl_model[x].start_date # NULL}}
EndYears(M) == {Val(tbl_model[m].end_date)[1] : m \in {x \in M : tbl_model[x].end_date # NULL}}

\* the models with a start date and an end date
FullyDated ==
    {m \in DOMAIN tbl_model : tbl_model[m].start_date # NULL /\ tbl_model[m].end_date # NULL}

\* C8 as claimed: fetch_year_range returns the minimum start year and the
\* maximum end year taken across all models of the store, and the fallback
\* (2000, current year) when no model has both dates set.
C8_RangeOverAllModels ==
    (ret.op = "fetch_year_range" /\ ret.status = "ok") =>
        IF FullyDated = {}
        THEN ret.value = <<2000, now_year>>
        ELSE /\ ret.value[1] \in StartYears(DOMAIN tbl_model)
             /\ \A y \in StartYears(DOMAIN tbl_model) : ret.value[1] <= y
             /\ ret.value[2] \in EndYears(DOMAIN tbl_model)
             /\ \A y \in EndYears(DOMAIN tbl_model) : ret.value[2] >= y

\* C8: fetch_year_range returns the minimum start year and the maximum end
\* year taken across the models that have both dates set; when no model has
\* both dates set it returns (2000, current year); the result is always a
\* pair of integers.
C8_RangeOverDatedModels ==
    (ret.op = "fetch_year_range" /\ ret.status = "ok") =>
        /\ Len(ret.value) = 2
        /\ ret.value[1] \in Int
        /\ ret.value[2] \in Int
        /\ IF FullyDated = {}
           THEN ret.value = <<2000, now_year>>
           ELSE /\ ret.value[1] \in StartYears(FullyDated)
                /\ \A y \in StartYears(FullyDated) : ret.value[1] <= y
                /\ ret.value[2] \in EndYears(FullyDated)
                /\ \A y \in EndYears(FullyDated) : ret.value[2] >= y

\* A model with a start but no end starts before every fully dated model:
\* its year is not the lower bound.
C8_Witness ==
    /\ ret.op = "fetch_year_range"
    /\ ret.status = "ok"
    /\ FullyDated # {}
    /\ \E m \in DOMAIN tbl_model :
          /\ tbl_model[m].start_date # NULL
          /\ tbl_model[m].end_date = NULL
          /\ Val(tbl_model[m].start_date)[1] < ret.value[1]

----------------------------------------------------------------------------
(* SpecPage: one run of app.py, the list tab and then the statistics tab.   *)

\* with tab_stats: the page holds `recalls`, the list fetch_recalls returned
\* to tab_list, and goes on to total_cnt, total_units = fetch_kpi(stat_scope,
\* stat_maker, year) with the statistics filters set as the list filters are.
\* The value is <<recalls, <<total_cnt, total_units>>>>; a failure of the
\* second call is fetch_kpi's RuntimeError (st.error(str(e)); st.stop()).
tab_stats ==
    /\ imported
    /\ call = Idle
    /\ ret.op = "fetch_recalls"
    /\ ret.status = "ok"
    /\ IF RoundTrip = "ok"
       THEN ret' = Returned("tab_stats", ret.args,
                            <<ret.value, Kpi(ret.args.scope, ret.args.maker, ret.args.year)>>,
                            ret.trips + 1)
       ELSE ret' = Raised("tab_stats", ret.args, RuntimeError("fetch_kpi", RoundTrip),
                          RoundTrip, ret.trips)
    /\ UNCHANGED <<environ, DB_CONFIG, imported, storage, store, call>>

\* the limit of app.py (limit=500) and one some stores have more matches than
PageLimits == {MaxLimit, DEFAULT_LIMIT}

NextPage ==
    \/ \E scope \in {ALL, DOMESTIC}, maker \in {ALL, ACME}, year \in QueryYearFilters,
          text \in {<<>>, <<"a", " ">>}, limit \in PageLimits :
           fetch_recalls(scope, maker, year, text, limit)
    \/ tab_stats
    \/ render

SpecPage == InitQuery /\ [][NextPage]_vars

\* the sum of the target_units of the records of a list
RECURSIVE TargetUnits(_)
TargetUnits(recalls) ==
    IF recalls = <<>> THEN 0 ELSE Head(recalls).target_units + TargetUnits(Tail(recalls))

\* C11: on one store, with an empty search text and a limit of at least the
\* number of matching recalls, the list fetch_recalls returns for (scope,
\* maker, year) has as many records as the recall count fetch_kpi returns for
\* the same (scope, maker, year), and the records' target_units add up to
\* fetch_kpi's total units.
C11_ListAgreesWithKpi ==
    (/\ ret.op = "tab_stats"
     /\ ret.status = "ok"
     /\ ret.args.search = <<>>
     /\ ret.args.n >= Cardinality(Matching(ret.args))) =>
        LET recalls == ret.value[1]
            total_cnt == ret.value[2][1]
            total_units == ret.value[2][2]
        IN  /\ Len(recalls) = total_cnt
            /\ TargetUnits(recalls) = total_units

\* A year-filtered list of two records, one of 2500 units and one of a
\* recall without a quantity, next to the KPI (2, 2500), in a store that
\* holds a third recall the year filter leaves out.
C11_Witness ==
    /\ ret.op = "tab_stats"
    /\ ret.status = "ok"
    /\ ret.args.search = <<>>
    /\ ret.args.year # NULL
    /\ ret.args.n >= Cardinality(Matching(ret.args))
    /\ Len(tbl_recall) = 3
    /\ Len(ret.value[1]) = 2
    /\ \E i \in 1..2 : ret.value[1][i].target_units = 0
    /\ ret.value[2] = <<2, 2500>>

=============================================================================
